---- MODULE Spec2Model ----
(***************************************************************************)
(* Model of examples/predictive_maintenance/1_data_ingestion.ipynb: the    *)
(* notebook run top to bottom ("Run all").  It stages the raw CSV files in *)
(* the target directory, loads the five sources with schema inference,     *)
(* fills missing telemetry values, writes five parquet data sets and then  *)
(* removes the staged CSV files.                                           *)
(***************************************************************************)
EXTENDS Integers, Sequences, FiniteSets, TLC

VARIABLES
    pc,       \* index into Program of the next statement of the run
    error,    \* "none", or the error that stopped the run
    storage,  \* files at storage_path (the origin of the raw tables)
    target,   \* files at target_dir
    df,       \* the notebook's DataFrame variables, by name
    bound     \* names of the DataFrame variables assigned so far

vars == <<pc, error, storage, target, df, bound>>

-----------------------------------------------------------------------------
(* Bounds of the model.                                                    *)

\* longest raw table of the pipeline specification
MaxRows == 1
\* longest raw telemetry table of the imputation specification
MaxTelemetryRows == 3

-----------------------------------------------------------------------------
(* Names (cell 1).                                                         *)

Keys == {"machines", "maint", "errors", "telemetry", "failures"}

parquet_files_names ==
    [machines  |-> "machines_files.parquet",
     maint     |-> "maint_files.parquet",
     errors    |-> "errors_files.parquet",
     telemetry |-> "telemetry_files.parquet",
     failures  |-> "failure_files.parquet"]

csv_files_names ==
    [machines  |-> "machines.csv",
     maint     |-> "maint.csv",
     errors    |-> "errors.csv",
     telemetry |-> "telemetry.csv",
     failures  |-> "failures.csv"]

\* a file at the source location that is none of the five CSV files
ExtraSourceFile == "readme.txt"
\* a file left at the target location by an earlier activity
StaleTargetFile == "old_output.bin"

FileNames ==
    {csv_files_names[k] : k \in Keys} \cup {parquet_files_names[k] : k \in Keys}
        \cup {ExtraSourceFile, StaleTargetFile}

\* header of each CSV file
Columns ==
    [machines  |-> {"machineID", "model", "age"},
     errors    |-> {"machineID", "datetime", "errorID"},
     maint     |-> {"machineID", "datetime", "comp"},
     telemetry |-> {"machineID", "datetime", "voltage", "rotation",
                    "pressure", "vibration"},
     failures  |-> {"machineID", "datetime", "failure"}]

-----------------------------------------------------------------------------
(* Tables.  A raw CSV cell is a text, the empty text being a missing       *)
(* value.  A DataFrame has a schema (a type per column) and rows; a        *)
(* missing cell of a DataFrame is NULL.                                    *)

NULL == "<null>"

\* the texts of the model that parse as a number
NumericText == {"0", "1", "2", "7", "18", "40", "99", "100", "170", "450"}

NoSchema == [c \in {} |-> "str"]

Unbound == [schema |-> NoSchema, rows |-> <<>>]

\* option("inferSchema", "true"): a column is numeric when it holds at least
\* one value and every value it holds parses as a number; a column with no
\* value at all, or with any other text, is a string column.
InferType(rows, c) ==
    IF /\ \E i \in 1..Len(rows) : rows[i][c] # ""
       /\ \A i \in 1..Len(rows) : rows[i][c] \in NumericText \cup {""}
    THEN "num"
    ELSE "str"

\* a load that drops the rows holding a missing value (mode DROPMALFORMED,
\* or a dropna after the load)
csvLoad_dropping(rows, cols) ==
    LET keep == SelectSeq(rows, LAMBDA r : \A c \in cols : r[c] # "")
    IN  [schema |-> [c \in cols |-> InferType(keep, c)],
         rows   |-> keep]

\* spark.read.format("csv").option("header", "true")
\*      .option("inferSchema", "true").load(path)
\* keeps every row; an empty cell is read as a missing value.
csvLoad(rows, cols) ==
    [schema |-> [c \in cols |-> InferType(rows, c)],
     rows   |-> [i \in 1..Len(rows) |->
                    [c \in cols |-> IF rows[i][c] = "" THEN NULL ELSE rows[i][c]]]]

TypeOf(value) == IF value \in NumericText THEN "num" ELSE "str"

\* a fill that stops after the first missing cell of a column (limit = 1)
fillna_limit1(d, value, subset) ==
    [d EXCEPT !.rows =
        [i \in 1..Len(d.rows) |->
            [c \in DOMAIN d.rows[i] |->
                IF /\ c \in subset
                   /\ d.schema[c] = TypeOf(value)
                   /\ d.rows[i][c] = NULL
                   /\ \A j \in 1..(i - 1) : d.rows[j][c] # NULL
                THEN value
                ELSE d.rows[i][c]]]]

\* DataFrame.fillna(value, subset): replaces the missing cells of the columns
\* of subset whose type matches the type of value; a column of subset of
\* another type is ignored.
fillna(d, value, subset) ==
    [d EXCEPT !.rows =
        [i \in 1..Len(d.rows) |->
            [c \in DOMAIN d.rows[i] |->
                IF /\ c \in subset
                   /\ d.schema[c] = TypeOf(value)
                   /\ d.rows[i][c] = NULL
                THEN value
                ELSE d.rows[i][c]]]]

features_datetime == {"datetime"}
features_categorical == {"machineID"}
features_numeric(d) == (DOMAIN d.schema \ features_datetime) \ features_categorical

-----------------------------------------------------------------------------
(* Files.                                                                  *)

Absent == [kind |-> "absent", origin |-> "none", schema |-> NoSchema, rows |-> <<>>]

CsvFile(rows, origin) ==
    [kind |-> "csv", origin |-> origin, schema |-> NoSchema, rows |-> rows]

OtherFile(origin) ==
    [kind |-> "other", origin |-> origin, schema |-> NoSchema, rows |-> <<>>]

ParquetFile(d, origin) ==
    [kind |-> "parquet", origin |-> origin, schema |-> d.schema, rows |-> d.rows]

\* dbutils.fs.cp(storage_path, target_dir, recurse=True): every file of the
\* source location is copied; the other files of the target stay.
cp(from, to) ==
    [f \in FileNames |->
        IF from[f].kind # "absent" THEN [from[f] EXCEPT !.origin = "staged"]
        ELSE to[f]]

\* a removal that addresses no file of the directory and changes nothing
rm_nothing(fs, f) == fs

\* dbutils.fs.rm(path)
rm(fs, f) == [fs EXCEPT ![f] = Absent]

-----------------------------------------------------------------------------
(* The statements of the notebook, in the order of a full run.             *)

Program ==
    << <<"stage", "">>,
       <<"load", "machines">>,
       <<"load", "errors">>,
       <<"load", "maint">>,
       <<"load", "telemetry">>,
       <<"fill_numeric", "telemetry">>,
       <<"fill_categorical", "telemetry">>,
       <<"load", "failures">>,
       <<"write", "machines">>,
       <<"write", "errors">>,
       <<"write", "maint">>,
       <<"write", "telemetry">>,
       <<"write", "failures">>,
       <<"rm", "machines">>,
       <<"rm", "maint">>,
       <<"rm", "errors">>,
       <<"rm", "telemetry">>,
       <<"rm", "failures">> >>

Running == error = "none" /\ pc \in 1..Len(Program)
Finished == error = "none" /\ pc = Len(Program) + 1
At(op, k) == Running /\ Program[pc] = <<op, k>>

-----------------------------------------------------------------------------
(* Raw inputs.                                                             *)

D1 == "2015-01-01 06:00:00"

MachinesRows ==
    {[machineID |-> "1", model |-> "model1", age |-> "18"],
     [machineID |-> "2", model |-> "",       age |-> "7"]}

ErrorsRows ==
    {[machineID |-> "1",  datetime |-> D1, errorID |-> "error1"],
     [machineID |-> "99", datetime |-> D1, errorID |-> "error9"]}

MaintRows ==
    {[machineID |-> "1", datetime |-> D1, comp |-> "comp1"],
     [machineID |-> "2", datetime |-> D1, comp |-> "component5"]}

FailuresRows ==
    {[machineID |-> "1", datetime |-> D1, failure |-> "comp1"]}

TelemetryRows ==
    {[machineID |-> "1", datetime |-> D1, voltage |-> "", rotation |-> "450",
      pressure |-> "100", vibration |-> "40"]}

TelemetryRowsWide ==
    {[machineID |-> m, datetime |-> D1, voltage |-> v, rotation |-> r,
      pressure |-> "100", vibration |-> "40"] :
        m \in {"1", ""}, v \in {"", "170", "abc"}, r \in {"", "450"}}

Tables(rowSet, n) == UNION {[1..m -> rowSet] : m \in 0..n}

\* raw: the raw table of each source; extra: the source location holds a
\* further file; prior: the target holds the artifacts of an earlier run;
\* stale: the target holds some other file (the target is not cleared, the
\* dbutils.fs.rm(target_dir, recurse = True) of cell 1 being commented out)
InitFiles(raw, extra, prior, stale) ==
    /\ storage = [f \in FileNames |->
                    IF \E k \in Keys : f = csv_files_names[k]
                    THEN CsvFile(raw[CHOOSE k \in Keys : f = csv_files_names[k]], "source")
                    ELSE IF f = ExtraSourceFile /\ extra THEN OtherFile("source")
                    ELSE Absent]
    /\ target = [f \in FileNames |->
                    IF prior /\ \E k \in Keys : f = parquet_files_names[k]
                    THEN ParquetFile(Unbound, "prior")
                    ELSE IF f = StaleTargetFile /\ stale THEN OtherFile("prior")
                    ELSE Absent]
    /\ pc = 1
    /\ error = "none"
    /\ df = [k \in Keys |-> Unbound]
    /\ bound = {}

Init ==
    \E m \in Tables(MachinesRows, MaxRows), e \in Tables(ErrorsRows, MaxRows),
       n \in Tables(MaintRows, MaxRows), t \in Tables(TelemetryRows, MaxRows),
       f \in Tables(FailuresRows, MaxRows), extra \in BOOLEAN, prior \in BOOLEAN,
       stale \in BOOLEAN :
        InitFiles([machines |-> m, errors |-> e, maint |-> n, telemetry |-> t,
                   failures |-> f], extra, prior, stale)

\* the imputation specification: every raw telemetry table up to
\* MaxTelemetryRows rows, the other sources fixed
InitImpute ==
    \E t \in Tables(TelemetryRowsWide, MaxTelemetryRows) :
        InitFiles([machines  |-> <<[machineID |-> "1", model |-> "model1", age |-> "18"]>>,
                   errors    |-> <<[machineID |-> "1", datetime |-> D1, errorID |-> "error1"]>>,
                   maint     |-> <<[machineID |-> "1", datetime |-> D1, comp |-> "comp1"]>>,
                   telemetry |-> t,
                   failures  |-> <<[machineID |-> "1", datetime |-> D1, failure |-> "comp1"]>>],
                  FALSE, TRUE, FALSE)

-----------------------------------------------------------------------------
(* Statements.                                                             *)

\* cell 1: mkdirs and the recursive copy into the target directory
Stage ==
    /\ At("stage", "")
    /\ target' = cp(storage, target)
    /\ pc' = pc + 1
    /\ UNCHANGED <<error, storage, df, bound>>

\* the load of one source; the read raises when the file cannot be read
Load(k) ==
    /\ At("load", k)
    /\ \E readable \in BOOLEAN :
        IF readable /\ storage[csv_files_names[k]].kind = "csv"
        THEN /\ df' = [df EXCEPT ![k] = csvLoad(storage[csv_files_names[k]].rows,
                                                 Columns[k])]
             /\ bound' = bound \cup {k}
             /\ pc' = pc + 1
             /\ UNCHANGED error
        ELSE /\ error' = "SourceUnavailableError"
             /\ UNCHANGED <<pc, df, bound>>
    /\ UNCHANGED <<storage, target>>

\* telemetry = telemetry.fillna(0, subset = features_numeric)
FillNumeric ==
    /\ At("fill_numeric", "telemetry")
    /\ df' = [df EXCEPT !["telemetry"] = fillna(@, "0", features_numeric(@))]
    /\ pc' = pc + 1
    /\ UNCHANGED <<error, storage, target, bound>>

\* telemetry = telemetry.fillna("Unknown", subset = features_categorical)
FillCategorical ==
    /\ At("fill_categorical", "telemetry")
    /\ df' = [df EXCEPT !["telemetry"] = fillna(@, "Unknown", features_categorical)]
    /\ pc' = pc + 1
    /\ UNCHANGED <<error, storage, target, bound>>

\* <k>.write.mode('overwrite').parquet(target_dir + parquet_files_names[k]);
\* a write that raises stops the run (the artifact is then taken to be as it
\* was before the statement)
Write(k) ==
    /\ At("write", k)
    /\ \E ok \in BOOLEAN :
        IF ok
        THEN /\ target' = [target EXCEPT ![parquet_files_names[k]] =
                                ParquetFile(df[k], "run")]
             /\ pc' = pc + 1
             /\ UNCHANGED error
        ELSE /\ error' = "WriteError"
             /\ UNCHANGED <<pc, target>>
    /\ UNCHANGED <<storage, df, bound>>

\* one iteration of the loop over csv_files_names.items()
Remove(k) ==
    /\ At("rm", k)
    /\ target' = rm(target, csv_files_names[k])
    /\ pc' = pc + 1
    /\ UNCHANGED <<error, storage, df, bound>>

Next ==
    \/ Stage
    \/ \E k \in Keys : Load(k)
    \/ FillNumeric
    \/ FillCategorical
    \/ \E k \in Keys : Write(k)
    \/ \E k \in Keys : Remove(k)

Spec == Init /\ [][Next]_vars

SpecImpute == InitImpute /\ [][Next]_vars

-----------------------------------------------------------------------------
(* Vocabulary of the properties.                                           *)

Artifact(k) == target[parquet_files_names[k]]
StagedCsv(k) == target[csv_files_names[k]]
RawTable(k) == storage[csv_files_names[k]].rows
FilesAt(fs) == {f \in FileNames : fs[f].kind # "absent"}
ParquetNames == {parquet_files_names[k] : k \in Keys}
CsvNames == {csv_files_names[k] : k \in Keys}

\* the statement <<op, k>> of the run has been executed
Executed(op, k) == \E i \in 1..Len(Program) : Program[i] = <<op, k>> /\ pc > i

WrittenByRun(k) == Artifact(k).kind = "parquet" /\ Artifact(k).origin = "run"

EventKeys == Keys \ {"machines"}
MachineIDs(rows) == {rows[i].machineID : i \in 1..Len(rows)}

\* every machineID of every event table is a machineID of the machine table
ReferentialOK(tables) ==
    \A k \in EventKeys : MachineIDs(tables[k].rows) \subseteq MachineIDs(tables["machines"].rows)

ErrorClasses == {"error1", "error2", "error3", "error4", "error5"}
ComponentTypes == {"comp1", "comp2", "comp3", "comp4"}

SensorColumns == {"voltage", "rotation", "pressure", "vibration"}

\* the categorical and identifier columns of each table
CategoricalColumns ==
    [machines  |-> {"machineID", "model"},
     errors    |-> {"machineID", "errorID"},
     maint     |-> {"machineID", "comp"},
     telemetry |-> {"machineID"},
     failures  |-> {"machineID", "failure"}]

NoMissing(rows, cols) == \A i \in 1..Len(rows) : \A c \in cols : rows[i][c] # NULL

\* the imputation step: numeric zero-fill, then categorical sentinel-fill
Impute(d) == fillna(fillna(d, "0", features_numeric(d)), "Unknown", features_categorical)

-----------------------------------------------------------------------------
(* C1: at every state of a run the five artifacts at the target are either *)
(* all those of the prior snapshot or all those written by this run, never *)
(* a mixture.  The code writes the five tables one after the other.        *)
C1_AllOrNothing ==
    \/ \A k \in Keys : WrittenByRun(k)
    \/ \A k \in Keys : ~WrittenByRun(k)

(* C2: after a run that completes, every machineID of every written event  *)
(* table is a machineID of the written machines table (a run with an       *)
(* orphaned machineID does not complete).                                  *)
C2_ReferentialIntegrity ==
    Finished => ReferentialOK([k \in Keys |-> Artifact(k)])

(* C4: no table written by the run holds a missing value in a categorical  *)
(* or identifier column, nor the telemetry table in a sensor column.       *)
C4_NoMissingAtWrite ==
    \A k \in Keys :
        WrittenByRun(k) =>
            /\ NoMissing(Artifact(k).rows, CategoricalColumns[k])
            /\ k = "telemetry" => NoMissing(Artifact(k).rows, SensorColumns)

(* C5: after the imputation of telemetry the rows are as many as the raw   *)
(* rows and in their order, a sensor cell that was missing is 0 and every  *)
(* cell that was not missing has the value it had.                         *)
C5_OnlyMissingCellsChange ==
    Executed("fill_categorical", "telemetry") =>
        /\ Len(df["telemetry"].rows) = Len(RawTable("telemetry"))
        /\ \A i \in 1..Len(RawTable("telemetry")) : \A c \in Columns["telemetry"] :
            /\ RawTable("telemetry")[i][c] # "" =>
                    df["telemetry"].rows[i][c] = RawTable("telemetry")[i][c]
            /\ (RawTable("telemetry")[i][c] = "" /\ c \in SensorColumns) =>
                    df["telemetry"].rows[i][c] = "0"

(* C6: imputation is idempotent: the imputation step applied to the        *)
(* imputed telemetry table yields that table again.                        *)
C6_ImputeIdempotent ==
    Executed("fill_categorical", "telemetry") =>
        Impute(df["telemetry"]) = df["telemetry"]

\* an imputed table of two or more rows in which the zero-fill and the
\* sentinel-fill have both replaced a missing cell
C6_Witness ==
    /\ Executed("fill_categorical", "telemetry")
    /\ Len(df["telemetry"].rows) >= 2
    /\ \E i \in 1..Len(df["telemetry"].rows) :
        RawTable("telemetry")[i]["voltage"] = "" /\ df["telemetry"].rows[i]["voltage"] = "0"
    /\ \E i \in 1..Len(df["telemetry"].rows) :
        RawTable("telemetry")[i]["machineID"] = ""
            /\ df["telemetry"].rows[i]["machineID"] = "Unknown"

(* C7: no written maint table holds a comp outside the four component      *)
(* types and no written errors table an errorID outside the five error     *)
(* classes (such a row stops the run with a SchemaError).                  *)
C7_EnumerationsEnforced ==
    /\ WrittenByRun("maint") =>
        \A i \in 1..Len(Artifact("maint").rows) :
            Artifact("maint").rows[i]["comp"] \in ComponentTypes
    /\ WrittenByRun("errors") =>
        \A i \in 1..Len(Artifact("errors").rows) :
            Artifact("errors").rows[i]["errorID"] \in ErrorClasses

(* C8 as stated: a run that completes leaves exactly the five artifacts at *)
(* the target, under five distinct names, each with the row count of its   *)
(* source table, and nothing else.                                         *)
C8_ExactlyFiveArtifacts ==
    Finished =>
        /\ FilesAt(target) = ParquetNames
        /\ Cardinality(ParquetNames) = Cardinality(Keys)
        /\ \A k \in Keys :
            WrittenByRun(k) /\ Len(Artifact(k).rows) = Len(RawTable(k))

(* C8 amended: a run that completes leaves the five artifacts written by   *)
(* this run under five distinct names, each with the row count of its      *)
(* source table, and none of the five staged CSV files; any other file at  *)
(* the target was there before the run or was copied from the source       *)
(* location.                                                               *)
C8_FiveArtifactsAmended ==
    Finished =>
        /\ Cardinality(ParquetNames) = Cardinality(Keys)
        /\ \A k \in Keys :
            /\ WrittenByRun(k)
            /\ Len(Artifact(k).rows) = Len(RawTable(k))
            /\ StagedCsv(k).kind = "absent"
        /\ \A f \in FilesAt(target) \ ParquetNames :
            \/ target[f].origin = "prior"
            \/ target[f].origin = "staged" /\ f \in FilesAt(storage) \ CsvNames

\* a completed run over a non-empty machines table, with a file left at the
\* target from before the run and a further file copied from the source
C8_Witness ==
    /\ Finished
    /\ Len(Artifact("machines").rows) >= 1
    /\ StaleTargetFile \in FilesAt(target)
    /\ ExtraSourceFile \in FilesAt(target)

(* C9: a table is written only when all five sources are loaded and the    *)
(* referential check over the loaded tables has passed.                    *)
C9_WriteAfterCheck ==
    (\E k \in Keys : WrittenByRun(k)) =>
        /\ bound = Keys
        /\ Executed("fill_categorical", "telemetry")
        /\ ReferentialOK(df)

(* C10: the raw files are staged first; a staged CSV file is removed only  *)
(* after all five parquet writes have completed; a run that completes has  *)
(* removed all five staged CSV files; a run that fails at a load or write  *)
(* leaves all of them; the files at the source location never change.      *)
C10_State ==
    /\ (Executed("stage", "") /\ ~Executed("write", "failures")) =>
            \A k \in Keys : StagedCsv(k) = CsvFile(RawTable(k), "staged")
    /\ error # "none" =>
            /\ Executed("stage", "")
            /\ \A k \in Keys : StagedCsv(k) = CsvFile(RawTable(k), "staged")
    /\ Finished => \A k \in Keys : StagedCsv(k).kind = "absent"
    /\ \A k \in Keys : storage[csv_files_names[k]].kind = "csv"

C10_Step ==
    /\ storage' = storage
    /\ (\E k \in Keys : StagedCsv(k).kind # "absent" /\ StagedCsv(k)'.kind = "absent") =>
            \A k \in Keys : WrittenByRun(k)

C10_StagingCleanup == [](C10_State) /\ [][C10_Step]_vars

\* a completed run: every staged CSV file removed, every original in place
C10_Witness ==
    /\ Finished
    /\ \A k \in Keys : StagedCsv(k).kind = "absent" /\ WrittenByRun(k)
    /\ \A k \in Keys : Len(RawTable(k)) >= 1

====
